---------------------------- MODULE Spec2Model ----------------------------
(* A model of src/agent/agent.py: the MCP client (handshake, catalog,     *)
(* tool invocation, response parsing) and the agentic loop run_agent      *)
(* driven by the /chat endpoint against one global conversation.          *)
(*                                                                        *)
(* Strings are TLA+ strings; str.strip, str.split("\n") and               *)
(* str.startswith are computed character by character.  json.loads is a   *)
(* table over the JSON texts the environment can send: every other text   *)
(* is invalid JSON.  Python exceptions are outcomes: an operator that     *)
(* models a method returns a record with a field exc ("" = returned).     *)
EXTENDS Integers, Sequences, FiniteSets, TLC

VARIABLES
    phase,          \* "boot" | "serving" | "aborted" (startup, l.243-250)
    session_id,     \* MCPClient.session_id (l.19, l.36)
    tools,          \* MCPClient.tools (l.20, l.57)
    mcpLog,         \* requests sent to the tool service, in order: [method, hdr]
    hsHeader,       \* mcp-session-id of the latest handshake response; Unset before
    hsBody,         \* body of the latest handshake response; Unset before
    firstSession,   \* first session identifier a handshake assigned; Unset before
    catalogBody,    \* body of the response list_tools last stored a catalog from
    lastBody,       \* body _parse_sse was last applied to
    lastParse,      \* what that application produced
    bodyLines,      \* the lines the body under test was built from (ParseSpec)
    conversation,   \* the global transcript (l.241)
    pc,             \* position of run_agent: "idle" | "await_model" | "tools"
    iter,           \* iterations of the loop of l.107 completed in this turn
    msg,            \* the model response being processed
    bi,             \* index of the next content block the loop of l.139 looks at
    tool_results,   \* l.138
    result,         \* what call_tool last returned (l.143)
    stopsSeen,      \* stop reasons of the model responses of this turn
    outcome,        \* how the last turn ended
    reply,          \* what run_agent returned
    modelRequests,  \* requests sent to the model endpoint in this turn
    toolCalls,      \* call_tool invocations since the last model request
    arrived,        \* /chat requests accepted and not yet handled
    turns,          \* turns started
    modelDefault,   \* what the model endpoint answers unless it deviates
    free,           \* deviations the environment may still make
    exc,            \* the exception that ended the last turn or startup, "" if none
    anthropic_tools,\* l.97
    ops             \* client operations performed (ClientSpec)

vars == <<phase, session_id, tools, mcpLog, hsHeader, hsBody, firstSession,
          catalogBody, lastBody, lastParse, bodyLines, result,
          conversation, pc, iter, msg, bi, tool_results, stopsSeen,
          outcome, reply, modelRequests, toolCalls, arrived, turns, modelDefault,
          free, exc, anthropic_tools, ops>>

clientVars == <<session_id, tools, mcpLog, hsHeader, hsBody, firstSession,
                catalogBody, lastBody, lastParse, result>>
turnVars == <<conversation, pc, iter, msg, bi, tool_results, stopsSeen, outcome, reply,
              modelRequests, toolCalls, modelDefault, anthropic_tools>>

-----------------------------------------------------------------------------
(* Bounds of the model *)

MaxTurns == 2       \* /chat requests per run
MaxFree == 1        \* non-nominal answers of the environment per run
MaxOps == 4         \* client operations per run of ClientSpec
MaxLines == 2       \* lines per body in ParseSpec
MaxCatalog == 2     \* tool descriptors per catalog in FormatSpec

(* Program constants *)

MaxIterations == 10     \* range(10), l.107
Ceiling == 10000        \* text[:10000], l.149
PrefixLen == 6          \* line[6:], l.75

-----------------------------------------------------------------------------
(* Python values *)

None == "None"          \* only ever compared with strings
Unset == "<unset>"
EmptyDict == [k \in {} |-> 0]
EmptyList == <<>>

\* dict.get(k, default)
Get(d, k, default) == IF k \in DOMAIN d THEN d[k] ELSE default

Min(S) == CHOOSE x \in S : \A y \in S : x <= y
Max(S) == CHOOSE x \in S : \A y \in S : x >= y

Chr(s, i) == SubSeq(s, i, i)
IsSpace(c) == c \in {" ", "\n", "\t", "\r"}

\* str.strip(): the text between the first and the last character that is
\* no white space
RECURSIVE FirstInk(_, _)
FirstInk(s, i) ==
    IF i > Len(s) THEN i
    ELSE IF IsSpace(Chr(s, i)) THEN FirstInk(s, i + 1) ELSE i

RECURSIVE LastInk(_, _)
LastInk(s, i) ==
    IF i < 1 THEN i
    ELSE IF IsSpace(Chr(s, i)) THEN LastInk(s, i - 1) ELSE i

Strip(s) == SubSeq(s, FirstInk(s, 1), LastInk(s, Len(s)))

\* str.split("\n"): nls is the set of the positions of the newlines
RECURSIVE SplitFrom(_, _, _)
SplitFrom(s, start, nls) ==
    LET nl == {i \in nls : i >= start}
    IN  IF nl = {} THEN <<SubSeq(s, start, Len(s))>>
        ELSE LET p == Min(nl)
             IN  <<SubSeq(s, start, p - 1)>> \o SplitFrom(s, p + 1, nls)

SplitLines(s) == SplitFrom(s, 1, {i \in 1..Len(s) : Chr(s, i) = "\n"})

\* str.startswith(p)
StartsWith(s, p) == Len(s) >= Len(p) /\ SubSeq(s, 1, Len(p)) = p

\* A join with a blank between the parts.
RECURSIVE Join_space(_)
Join_space(parts) ==
    IF parts = <<>> THEN ""
    ELSE IF Len(parts) = 1 THEN parts[1]
    ELSE parts[1] \o " " \o Join_space(Tail(parts))

\* "\n".join(parts)
RECURSIVE Join(_)
Join(parts) ==
    IF parts = <<>> THEN ""
    ELSE IF Len(parts) = 1 THEN parts[1]
    ELSE parts[1] \o "\n" \o Join(Tail(parts))


-----------------------------------------------------------------------------
(* JSON texts the tool service can send, and json.loads on them *)

J_INIT == "{\"result\":{\"protocolVersion\":\"2025-03-26\"}}"
J_TOOLS_EMPTY == "{\"result\":{\"tools\":[]}}"
J_TOOLS_X == "{\"result\":{\"tools\":[{\"name\":\"x\"}]}}"
J_TOOLS_2 == "{\"result\":{\"tools\":[{\"name\":\"list_issues\",\"description\":\"List issues\",\"inputSchema\":{\"type\":\"object\"}},{\"name\":\"get_issue\"}]}}"
J_CALL_1 == "{\"result\":{\"content\":[{\"type\":\"text\",\"text\":\"issue #1\"}]}}"
J_CALL_2 == "{\"result\":{\"content\":[{\"type\":\"text\",\"text\":\"issue #1\"},{\"type\":\"text\",\"text\":\"issue #2\"}]}}"
J_RPC_ERROR == "{\"jsonrpc\":\"2.0\",\"id\":3,\"error\":{\"code\":-32602,\"message\":\"Unknown tool\"}}"
J_ARRAY == "[]"

\* n copies of the character c
RECURSIVE Rep(_, _)
Rep(c, n) ==
    IF n = 0 THEN ""
    ELSE IF n % 2 = 1 THEN c \o Rep(c, n - 1)
    ELSE LET half == Rep(c, n \div 2) IN half \o half

\* A tool output of 20000 characters once its parts are joined: 9999, the
\* newline of the join, 10000.
LongA == Rep("a", 9999)
LongB == Rep("b", 10000)
J_CALL_LONG ==
    "{\"result\":{\"content\":[{\"type\":\"text\",\"text\":\"" \o LongA
        \o "\"},{\"type\":\"text\",\"text\":\"" \o LongB \o "\"}]}}"
NOT_JSON == "not json"

TextPart(t) == [type |-> "text", text |-> t]

\* The value of each valid JSON text; objects are records, arrays sequences.
JsonValue(t) ==
    CASE t = J_INIT -> [result |-> [protocolVersion |-> "2025-03-26"]]
      [] t = J_TOOLS_EMPTY -> [result |-> [tools |-> EmptyList]]
      [] t = J_TOOLS_X -> [result |-> [tools |-> <<[name |-> "x"]>>]]
      [] t = J_TOOLS_2 ->
            [result |-> [tools |->
                <<[name |-> "list_issues", description |-> "List issues",
                   inputSchema |-> [type |-> "object"]],
                  [name |-> "get_issue"]>>]]
      [] t = J_CALL_1 -> [result |-> [content |-> <<TextPart("issue #1")>>]]
      [] t = J_CALL_2 ->
            [result |-> [content |-> <<TextPart("issue #1"), TextPart("issue #2")>>]]
      [] t = J_CALL_LONG ->
            [result |-> [content |-> <<TextPart(LongA), TextPart(LongB)>>]]
      [] t = J_RPC_ERROR ->
            [jsonrpc |-> "2.0", id |-> 3,
             error |-> [code |-> -32602, message |-> "Unknown tool"]]
      [] t = J_ARRAY -> EmptyList

JsonObjects == {J_INIT, J_TOOLS_EMPTY, J_TOOLS_X, J_TOOLS_2, J_CALL_1, J_CALL_2,
                J_CALL_LONG, J_RPC_ERROR}
JsonTexts == JsonObjects \cup {J_ARRAY}

\* json.loads(s): white space around the document is accepted; ok = FALSE
\* stands for json.JSONDecodeError.
JsonLoads(s) ==
    LET t == Strip(s)
    IN  IF t \in JsonTexts
        THEN [ok |-> TRUE, isdict |-> t \in JsonObjects, v |-> JsonValue(t)]
        ELSE [ok |-> FALSE, isdict |-> FALSE, v |-> EmptyDict]

-----------------------------------------------------------------------------
(* MCPClient *)

DataPrefix == "data: "

Returned(isdict, v) == [exc |-> "", isdict |-> isdict, v |-> v]
Raised(e) == [exc |-> e, isdict |-> FALSE, v |-> EmptyDict]

\* Indexes of the lines of text.strip().split("\n") for which
\* line.startswith("data: ") holds (l.73-74).
DataLines(text) ==
    LET lines == SplitLines(Strip(text))
    IN  {i \in 1..Len(lines) : StartsWith(lines[i], DataPrefix)}

\* A parser that takes the last line with the data prefix, not the first.
parse_sse_last(text) ==
    LET lines == SplitLines(Strip(text))
        data == DataLines(text)
    IN  IF data # {}
        THEN LET line == lines[Max(data)]
                 j == JsonLoads(SubSeq(line, PrefixLen + 1, Len(line)))
             IN  IF j.ok THEN Returned(j.isdict, j.v)
                 ELSE Raised("JSONDecodeError")
        ELSE LET j == JsonLoads(text)
             IN  IF j.ok THEN Returned(j.isdict, j.v)
                 ELSE Returned(TRUE, EmptyDict)

\* MCPClient._parse_sse (l.72-79).  The json.loads of l.75 is outside the
\* try block and its exception leaves the method.
parse_sse(text) ==
    LET lines == SplitLines(Strip(text))
        data == DataLines(text)
    IN  IF data # {}
        THEN LET line == lines[Min(data)]
                 j == JsonLoads(SubSeq(line, PrefixLen + 1, Len(line)))
             IN  IF j.ok THEN Returned(j.isdict, j.v)
                 ELSE Raised("JSONDecodeError")
        ELSE LET j == JsonLoads(text)
             IN  IF j.ok THEN Returned(j.isdict, j.v)
                 ELSE Returned(TRUE, EmptyDict)

-----------------------------------------------------------------------------
(* The environment of the program *)

\* An answer of a remote endpoint: [kind |-> "ok", ...] or, when httpx raises
\* (connection failure, timeout), [kind |-> "fail"].
Fail == [kind |-> "fail"]
Body(text) == [kind |-> "ok", text |-> text]
Handshake(hdr, text) == [kind |-> "ok", hdr |-> hdr, text |-> text]

SSE(json) == "event: message\ndata: " \o json \o "\n\n"

NominalHandshake == Handshake("sess-1", SSE(J_INIT))
HandshakeAnswers ==
    {NominalHandshake, Handshake(None, SSE(J_INIT)), Handshake("", SSE(J_INIT)),
     Handshake("sess-1", NOT_JSON), Fail}

NominalNotify == Body("")
NotifyAnswers == {NominalNotify, Fail}

NominalCatalog == Body(SSE(J_TOOLS_2))
CatalogAnswers ==
    {NominalCatalog, Body(DataPrefix \o J_TOOLS_EMPTY \o "\n"), Body(J_TOOLS_X),
     Body(NOT_JSON), Body(DataPrefix \o NOT_JSON \o "\n"), Body(J_RPC_ERROR), Fail}

NominalTool == Body(SSE(J_CALL_1))
ToolAnswers ==
    {NominalTool, Body(J_CALL_2), Body(J_CALL_LONG), Body(NOT_JSON),
     Body(DataPrefix \o NOT_JSON), Body(J_RPC_ERROR), Body(DataPrefix \o J_ARRAY),
     Fail}

\* What an answer costs the environment: the nominal one is free.
Cost(a, nominal) == IF a = nominal THEN 0 ELSE 1

\* parse_sse on the bodies above, computed once.
KnownTexts == {a.text : a \in (CatalogAnswers \cup ToolAnswers) \ {Fail}}
ParseMemo == [t \in KnownTexts |-> parse_sse(t)]
Parsed(text) == IF text \in KnownTexts THEN ParseMemo[text] ELSE parse_sse(text)

-----------------------------------------------------------------------------
(* MCPClient, continued *)

\* bool(self.session_id) (l.46)
Truthy(sid) == sid # None /\ sid # ""

AcceptHeader == "Accept" :> "application/json, text/event-stream"

\* Headers that never carry the session.
headers_bare(sid) == AcceptHeader

\* MCPClient._headers (l.44-48)
headers(sid) ==
    IF Truthy(sid) THEN AcceptHeader @@ ("Mcp-Session-Id" :> sid)
    ELSE AcceptHeader

Request(method, h, params) == [method |-> method, headers |-> h, params |-> params]

\* data["result"] in place of data.get("result", {}).
ResultOf_strict(p) ==
    IF p.exc # "" THEN p
    ELSE IF ~p.isdict THEN Raised("AttributeError")
    ELSE IF "result" \notin DOMAIN p.v THEN Raised("KeyError")
    ELSE Returned(TRUE, p.v.result)

\* data.get("result", {}) on what _parse_sse returned (l.57, l.70): data
\* that is no dict has no get.
ResultOf(p) ==
    IF p.exc # "" THEN p
    ELSE IF ~p.isdict THEN Raised("AttributeError")
    ELSE Returned(TRUE, Get(p.v, "result", EmptyDict))

\* What list_tools computes from a response body (l.56-58).
list_tools_value(text) ==
    LET r == ResultOf(Parsed(text))
    IN  IF r.exc # "" THEN r
        ELSE Returned(FALSE, Get(r.v, "tools", EmptyList))

\* What call_tool computes from a response body (l.69-70).
call_tool_value(text) == ResultOf(Parsed(text))

\* The client object with the record of its traffic, as one value.
Client ==
    [session_id |-> session_id, tools |-> tools, mcpLog |-> mcpLog,
     hsHeader |-> hsHeader, hsBody |-> hsBody, firstSession |-> firstSession,
     catalogBody |-> catalogBody, lastBody |-> lastBody, lastParse |-> lastParse,
     result |-> result]

SetClient(c) ==
    /\ session_id' = c.session_id
    /\ tools' = c.tools
    /\ mcpLog' = c.mcpLog
    /\ hsHeader' = c.hsHeader
    /\ hsBody' = c.hsBody
    /\ firstSession' = c.firstSession
    /\ catalogBody' = c.catalogBody
    /\ lastBody' = c.lastBody
    /\ lastParse' = c.lastParse
    /\ result' = c.result

\* MCPClient.__init__ (l.17-21)
NewClient ==
    [session_id |-> None, tools |-> EmptyList, mcpLog |-> <<>>,
     hsHeader |-> Unset, hsBody |-> Unset, firstSession |-> Unset,
     catalogBody |-> Unset, lastBody |-> Unset,
     lastParse |-> Returned(TRUE, EmptyDict), result |-> EmptyDict]

SetClientInit ==
    /\ session_id = NewClient.session_id
    /\ tools = NewClient.tools
    /\ mcpLog = NewClient.mcpLog
    /\ hsHeader = NewClient.hsHeader
    /\ hsBody = NewClient.hsBody
    /\ firstSession = NewClient.firstSession
    /\ catalogBody = NewClient.catalogBody
    /\ lastBody = NewClient.lastBody
    /\ lastParse = NewClient.lastParse
    /\ result = NewClient.result

\* MCPClient.initialize (l.23-42): h answers the handshake, n the
\* notification.  The handshake request carries only the Accept header; the
\* body of the handshake response is never read.
initialize(c, h, n) ==
    LET sent == Append(c.mcpLog, Request("initialize", AcceptHeader, "handshake"))
    IN  IF h.kind = "fail"
        THEN [c |-> [c EXCEPT !.mcpLog = sent], exc |-> "TransportError"]
        ELSE LET sid == h.hdr
                 note == Request("notifications/initialized", headers(sid), "none")
             IN  [c |-> [c EXCEPT !.session_id = sid,
                                  !.hsHeader = h.hdr,
                                  !.hsBody = h.text,
                                  !.firstSession =
                                      IF c.firstSession = Unset /\ sid # None
                                      THEN sid ELSE c.firstSession,
                                  !.mcpLog = Append(sent, note)],
                  exc |-> IF n.kind = "fail" THEN "TransportError" ELSE ""]

\* MCPClient.list_tools (l.50-58)
list_tools(c, a) ==
    LET sent == Append(c.mcpLog, Request("tools/list", headers(c.session_id), "none"))
    IN  IF a.kind = "fail"
        THEN [c |-> [c EXCEPT !.mcpLog = sent], exc |-> "TransportError"]
        ELSE LET v == list_tools_value(a.text)
                 c1 == [c EXCEPT !.mcpLog = sent, !.lastBody = a.text,
                                 !.lastParse = Parsed(a.text)]
             IN  IF v.exc # "" THEN [c |-> c1, exc |-> v.exc]
                 ELSE [c |-> [c1 EXCEPT !.tools = v.v, !.catalogBody = a.text],
                       exc |-> ""]

\* MCPClient.call_tool (l.60-70)
call_tool(c, name, arguments, a) ==
    LET sent == Append(c.mcpLog,
                       Request("tools/call", headers(c.session_id), name))
    IN  IF a.kind = "fail"
        THEN [c |-> [c EXCEPT !.mcpLog = sent], exc |-> "TransportError",
              result |-> EmptyDict]
        ELSE LET v == call_tool_value(a.text)
             IN  [c |-> [c EXCEPT !.mcpLog = sent, !.lastBody = a.text,
                                  !.lastParse = Parsed(a.text),
                                  !.result = v.v],
                  exc |-> v.exc, result |-> v.v]

-----------------------------------------------------------------------------
(* The model endpoint *)

TextBlock(t) == [type |-> "text", text |-> t]
ThinkingBlock(t) == [type |-> "thinking", thinking |-> t]
ToolUse(id, name) == [type |-> "tool_use", id |-> id, name |-> name, input |-> EmptyDict]

Response(stop, content) == [stop_reason |-> stop, content |-> content]

RespEnd == Response("end_turn", <<ThinkingBlock("hm"), TextBlock("Hello"), TextBlock("world")>>)
RespTool1 == Response("tool_use", <<TextBlock("Checking."), ToolUse("toolu_1", "list_issues")>>)
RespTool2 ==
    Response("tool_use",
             <<ToolUse("toolu_1", "list_issues"), TextBlock("and"),
               ToolUse("toolu_2", "get_issue")>>)
RespToolNone == Response("tool_use", <<TextBlock("no call")>>)
RespOther == Response("max_tokens", <<TextBlock("partial"), ToolUse("toolu_3", "get_issue")>>)
RespError == [type |-> "error",
              error |-> [type |-> "overloaded_error", message |-> "Overloaded"]]

Responses == {RespEnd, RespTool1, RespTool2, RespToolNone, RespOther, RespError}

\* What the endpoint keeps answering in a run, except where it deviates.
DefaultResponses == {RespTool1, RespOther}

Json(m) == [kind |-> "ok", json |-> m]
ModelAnswers == {Json(m) : m \in Responses} \cup {Fail}

NominalUser == "list issues"
UserTexts == {NominalUser, ""}

NoMsg == Response("none", <<>>)

-----------------------------------------------------------------------------
(* Claude agent *)

DefaultSchema == [type |-> "object", properties |-> EmptyDict]

\* A translation that lists the tools in reverse.
tools_to_anthropic_format_reversed(mcp_tools) ==
    [i \in 1..Len(mcp_tools) |->
        [name |-> mcp_tools[Len(mcp_tools) + 1 - i].name,
         description |-> Get(mcp_tools[Len(mcp_tools) + 1 - i], "description", ""),
         input_schema |-> Get(mcp_tools[Len(mcp_tools) + 1 - i], "inputSchema",
                              DefaultSchema)]]

\* tools_to_anthropic_format (l.84-93); t["name"] needs the name every tool
\* descriptor has.
tools_to_anthropic_format(mcp_tools) ==
    [i \in 1..Len(mcp_tools) |->
        [name |-> mcp_tools[i].name,
         description |-> Get(mcp_tools[i], "description", ""),
         input_schema |-> Get(mcp_tools[i], "inputSchema", DefaultSchema)]]

UserText(u) == [role |-> "user", ctype |-> "str", content |-> u]
UserBlocks(bs) == [role |-> "user", ctype |-> "list", content |-> bs]
\* An assistant message that keeps only the tool_use blocks.
Assistant_toolsonly(bs) ==
    [role |-> "assistant", ctype |-> "list",
     content |-> SelectSeq(bs, LAMBDA b : b.type = "tool_use")]

Assistant(bs) == [role |-> "assistant", ctype |-> "list", content |-> bs]

\* msg.get("error") (l.126)
HasError(m) == "error" \in DOMAIN m

\* Only the message of the error object, not the object.
PyStr_message(e) == e.message

\* Every stop reason except tool_use ends the turn.
IsEndTurn_unlessTool(m) == m.stop_reason # "tool_use"

\* msg["stop_reason"] == "end_turn" (l.132)
IsEndTurn(m) == m.stop_reason = "end_turn"

\* str() of the error object inside the f-string of l.127
PyStr(e) == "{'type': '" \o e.type \o "', 'message': '" \o e.message \o "'}"

\* No truncation.
Truncate_off(text) == text

\* text[:10000] (l.149)
Truncate(text) == SubSeq(text, 1, Min({Len(text), Ceiling}))

\* The texts of the text blocks, in order (l.134)
RECURSIVE Texts(_)
Texts(content) ==
    IF content = <<>> THEN <<>>
    ELSE (IF Head(content).type = "text" THEN <<Head(content).text>> ELSE <<>>)
         \o Texts(Tail(content))

\* A loop that stops after the first tool_use block of a response.
ToolUseIdx_first(content, from) ==
    IF from > 1 THEN {}
    ELSE {i \in from..Len(content) : content[i].type = "tool_use"}

\* Indexes, from index from on, of the tool_use blocks (l.139-140)
ToolUseIdx(content, from) ==
    {i \in from..Len(content) : content[i].type = "tool_use"}

\* A tool_result filed under the name of the tool, not the id of the request.
ToolResult_byname(block, res) ==
    [type |-> "tool_result", tool_use_id |-> block.name, content |-> ""]

\* The tool_result block of one tool_use block (l.144-150)
ToolResult(block, res) ==
    LET content_parts == Get(res, "content", EmptyList)
        text == Join([i \in 1..Len(content_parts) |->
                         Get(content_parts[i], "text", "")])
    IN  [type |-> "tool_result", tool_use_id |-> block.id, content |-> Truncate(text)]

\* An insert at the head of the transcript instead of an append.
AppendMsg_front(conv, m) == <<m>> \o conv

\* A loop of one pass more.
LoopContinues_off(i) == i < MaxIterations

\* conversation.append (l.98, l.130, l.151)
AppendMsg(conv, m) == Append(conv, m)

\* range(10) has another pass after pass number i (counted from 0) (l.107)
LoopContinues(i) == i + 1 < MaxIterations

\* run_agent returns (or an exception leaves it)
Finish(out, text, e) ==
    /\ pc' = "idle"
    /\ outcome' = out
    /\ reply' = text
    /\ exc' = e

\* The end of one pass of the loop of l.107: the next pass, or l.153.
NextIteration ==
    /\ iter' = iter + 1
    /\ IF LoopContinues(iter)
       THEN pc' = "await_model" /\ UNCHANGED <<outcome, reply, exc>>
       ELSE Finish("BudgetExceeded", "Reached maximum iterations.", "")

\* startup (l.243-250): the handshake, the notification, the catalog.
startup ==
    /\ phase = "boot"
    /\ \E h \in HandshakeAnswers, n \in NotifyAnswers, a \in CatalogAnswers :
        LET i == initialize(NewClient, h, n)
            l == list_tools(i.c, a)
            cost == Cost(h, NominalHandshake)
                    + (IF h.kind = "ok" THEN Cost(n, NominalNotify) ELSE 0)
                    + (IF i.exc = "" THEN Cost(a, NominalCatalog) ELSE 0)
        IN  /\ cost <= free
            /\ h.kind = "fail" => n = NominalNotify
            /\ i.exc # "" => a = NominalCatalog
            /\ free' = free - cost
            /\ IF i.exc # ""
               THEN SetClient(i.c) /\ phase' = "aborted" /\ exc' = i.exc
               ELSE /\ SetClient(l.c)
                    /\ phase' = IF l.exc = "" THEN "serving" ELSE "aborted"
                    /\ exc' = l.exc
    /\ UNCHANGED <<turnVars, arrived, turns, bodyLines, ops>>

\* A POST /chat reaches the server.
ChatArrive ==
    /\ phase = "serving"
    /\ turns + arrived < MaxTurns
    /\ arrived' = arrived + 1
    /\ UNCHANGED <<phase, clientVars, turnVars, turns, free, exc, bodyLines, ops>>

\* A handler that starts whenever a request is waiting, as handlers run
\* in threads of their own would.
EventLoopFree_threads == TRUE

\* The event loop can run a handler: chat_endpoint is a coroutine and
\* run_agent, which it calls at l.266 without await, is a plain blocking
\* function, so the one event loop runs nothing else until run_agent returns.
EventLoopFree == pc = "idle"

\* chat_endpoint (l.263-267) up to the first request of run_agent (l.96-98).
chat_endpoint ==
    /\ phase = "serving"
    /\ EventLoopFree
    /\ arrived > 0
    /\ \E user_msg \in UserTexts :
        /\ Cost(user_msg, NominalUser) <= free
        /\ free' = free - Cost(user_msg, NominalUser)
        /\ conversation' = AppendMsg(conversation, UserText(user_msg))
    /\ anthropic_tools' = tools_to_anthropic_format(tools)
    /\ arrived' = arrived - 1
    /\ turns' = turns + 1
    /\ pc' = "await_model"
    /\ iter' = 0
    /\ msg' = NoMsg
    /\ bi' = 0
    /\ tool_results' = <<>>
    /\ stopsSeen' = {}
    /\ outcome' = "none"
    /\ reply' = None
    /\ exc' = ""
    /\ modelRequests' = 0
    /\ toolCalls' = 0
    /\ UNCHANGED <<phase, clientVars, modelDefault, bodyLines, ops>>

\* One request to the model endpoint and what run_agent does with the
\* answer, up to its next request or its return (l.108-137, l.151-153).
ModelRoundTrip ==
    /\ pc = "await_model"
    /\ \E a \in ModelAnswers :
        /\ Cost(a, Json(modelDefault)) <= free
        /\ free' = free - Cost(a, Json(modelDefault))
        /\ IF a.kind = "fail"
           THEN /\ Finish("Raised", None, "TransportError")
                /\ stopsSeen' = stopsSeen \cup {"no response"}
                /\ UNCHANGED <<conversation, iter, msg, bi, tool_results>>
           ELSE /\ msg' = a.json
                /\ stopsSeen' = stopsSeen \cup
                        {IF HasError(a.json) THEN "error" ELSE a.json.stop_reason}
                /\ IF HasError(a.json)
                   THEN /\ Finish("Error", "Error: " \o PyStr(a.json.error), "")
                        /\ UNCHANGED <<conversation, iter, bi, tool_results>>
                   ELSE LET content == a.json.content
                            conv == AppendMsg(conversation, Assistant(content))
                            calls == ToolUseIdx(content, 1)
                        IN  IF IsEndTurn(a.json)
                            THEN /\ conversation' = conv
                                 /\ Finish("Done", Join(Texts(content)), "")
                                 /\ UNCHANGED <<iter, bi, tool_results>>
                            ELSE IF a.json.stop_reason = "tool_use"
                            THEN IF calls = {}
                                 THEN /\ conversation' = AppendMsg(conv, UserBlocks(<<>>))
                                      /\ tool_results' = <<>>
                                      /\ bi' = Len(content) + 1
                                      /\ NextIteration
                                 ELSE /\ conversation' = conv
                                      /\ tool_results' = <<>>
                                      /\ bi' = Min(calls)
                                      /\ pc' = "tools"
                                      /\ UNCHANGED <<iter, outcome, reply, exc>>
                            ELSE /\ conversation' = conv
                                 /\ NextIteration
                                 /\ UNCHANGED <<bi, tool_results>>
    /\ modelRequests' = modelRequests + 1
    /\ toolCalls' = 0
    /\ UNCHANGED <<phase, clientVars, arrived, turns, modelDefault,
                   anthropic_tools, bodyLines, ops>>

\* One call_tool of the loop of l.139-150 and what follows it up to the
\* next request: the next tool_use block, or l.151 and the next pass.
ToolRoundTrip ==
    /\ pc = "tools"
    /\ \E a \in ToolAnswers :
        LET block == msg.content[bi]
            r == call_tool(Client, block.name, block.input, a)
            results == Append(tool_results, ToolResult(block, r.result))
            rest == ToolUseIdx(msg.content, bi + 1)
        IN  /\ Cost(a, NominalTool) <= free
            /\ free' = free - Cost(a, NominalTool)
            /\ SetClient(r.c)
            /\ IF r.exc # ""
               THEN /\ Finish("Raised", None, r.exc)
                    /\ UNCHANGED <<conversation, iter, bi, tool_results>>
               ELSE /\ tool_results' = results
                    /\ IF rest = {}
                       THEN /\ conversation' = AppendMsg(conversation, UserBlocks(results))
                            /\ bi' = Len(msg.content) + 1
                            /\ NextIteration
                       ELSE /\ bi' = Min(rest)
                            /\ UNCHANGED <<conversation, pc, iter, outcome, reply, exc>>
    /\ toolCalls' = toolCalls + 1
    /\ UNCHANGED <<phase, msg, stopsSeen, modelRequests, arrived, turns,
                   modelDefault, anthropic_tools, bodyLines, ops>>

\* The module's globals (l.240-241) and a client as __init__ leaves it; no
\* turn has run.
Fresh ==
    /\ SetClientInit
    /\ conversation = <<>>
    /\ pc = "idle"
    /\ iter = 0
    /\ msg = NoMsg
    /\ bi = 0
    /\ tool_results = <<>>
    /\ stopsSeen = {}
    /\ outcome = "none"
    /\ reply = None
    /\ exc = ""
    /\ modelRequests = 0
    /\ toolCalls = 0
    /\ arrived = 0
    /\ turns = 0
    /\ anthropic_tools = <<>>
    /\ ops = 0

Init ==
    /\ phase = "boot"
    /\ Fresh
    /\ modelDefault \in DefaultResponses
    /\ free = MaxFree
    /\ bodyLines = <<>>

Next ==
    \/ startup
    \/ ChatArrive
    \/ chat_endpoint
    \/ ModelRoundTrip
    \/ ToolRoundTrip

Spec == Init /\ [][Next]_vars

\* A blocking request returns or raises within its timeout (l.21, l.122), so
\* a turn that waits for an answer gets one.
FairSpec == Spec /\ WF_vars(ModelRoundTrip) /\ WF_vars(ToolRoundTrip)

-----------------------------------------------------------------------------
(* The client on its own: its methods called in any order *)

ClientHandshakes == {Handshake(h, SSE(J_INIT)) : h \in {None, "sess-1", "sess-2"}}
ClientCatalogs == {NominalCatalog, Body(J_TOOLS_X)}
ClientToolAnswers == {NominalTool, Body(NOT_JSON)}

ClientInit ==
    /\ phase = "client"
    /\ Fresh
    /\ modelDefault = RespTool1
    /\ free = 0
    /\ bodyLines = <<>>

ClientInitialize ==
    /\ ops < MaxOps
    /\ \E h \in ClientHandshakes :
        LET r == initialize(Client, h, NominalNotify)
        IN  SetClient(r.c) /\ exc' = r.exc
    /\ ops' = ops + 1
    /\ UNCHANGED <<phase, turnVars, arrived, turns, free, bodyLines>>

ClientListTools ==
    /\ ops < MaxOps
    /\ \E a \in ClientCatalogs :
        LET r == list_tools(Client, a)
        IN  SetClient(r.c) /\ exc' = r.exc
    /\ ops' = ops + 1
    /\ UNCHANGED <<phase, turnVars, arrived, turns, free, bodyLines>>

ClientCallTool ==
    /\ ops < MaxOps
    /\ \E a \in ClientToolAnswers :
        LET r == call_tool(Client, "list_issues", EmptyDict, a)
        IN  SetClient(r.c) /\ exc' = r.exc
    /\ ops' = ops + 1
    /\ UNCHANGED <<phase, turnVars, arrived, turns, free, bodyLines>>

ClientNext == ClientInitialize \/ ClientListTools \/ ClientCallTool

ClientSpec == ClientInit /\ [][ClientNext]_vars

-----------------------------------------------------------------------------
(* The response parser on its own: list_tools and call_tool applied to    *)
(* every body of at most MaxLines lines                                    *)

Line(prefix, rest) == [prefix |-> prefix, rest |-> rest]
LineText(l) == l.prefix \o l.rest

Payloads == {J_TOOLS_EMPTY, J_TOOLS_X, J_CALL_1, NOT_JSON}
LineSet ==
    {Line(p, r) : p \in {DataPrefix, ""}, r \in Payloads}
    \cup {Line("event: ", "message"), Line("", "")}

LineSeqs == UNION {[1..n -> LineSet] : n \in 0..MaxLines}

BodyOf(ls) == Join([i \in 1..Len(ls) |-> LineText(ls[i])])

ParseInit ==
    /\ phase = "parser"
    /\ Fresh
    /\ modelDefault = RespTool1
    /\ free = 0
    /\ bodyLines \in LineSeqs

TestListTools ==
    /\ ops = 0
    /\ LET r == list_tools(Client, Body(BodyOf(bodyLines)))
       IN  SetClient(r.c) /\ exc' = r.exc
    /\ ops' = 1
    /\ UNCHANGED <<phase, turnVars, arrived, turns, free, bodyLines>>

TestCallTool ==
    /\ ops = 0
    /\ LET r == call_tool(Client, "list_issues", EmptyDict, Body(BodyOf(bodyLines)))
       IN  SetClient(r.c) /\ exc' = r.exc
    /\ ops' = 2
    /\ UNCHANGED <<phase, turnVars, arrived, turns, free, bodyLines>>

ParseNext == TestListTools \/ TestCallTool

ParseSpec == ParseInit /\ [][ParseNext]_vars

-----------------------------------------------------------------------------
(* The catalog translation on its own: tools_to_anthropic_format applied  *)
(* to every catalog of at most MaxCatalog descriptors                      *)

Names == {"list_issues", "get_issue"}
Descriptions == {"", "List issues"}
Schemas == {[type |-> "object"]}

\* A tool descriptor: a name, and a description and an input schema or not.
Descriptors ==
    {("name" :> n) @@ d @@ sch :
        n \in Names,
        d \in {EmptyDict} \cup {("description" :> t) : t \in Descriptions},
        sch \in {EmptyDict} \cup {("inputSchema" :> x) : x \in Schemas}}

Catalogs == UNION {[1..n -> Descriptors] : n \in 0..MaxCatalog}

FormatInit ==
    /\ phase = "format"
    /\ Fresh
    /\ modelDefault = RespTool1
    /\ free = 0
    /\ bodyLines = <<>>

\* The catalog the client holds is one the tool service listed (l.57).
StoreCatalog ==
    /\ ops = 0
    /\ \E c \in Catalogs : SetClient([Client EXCEPT !.tools = c])
    /\ ops' = 1
    /\ UNCHANGED <<phase, turnVars, arrived, turns, free, exc, bodyLines>>

\* The first statement of run_agent (l.97).
Translate ==
    /\ ops = 1
    /\ anthropic_tools' = tools_to_anthropic_format(tools)
    /\ ops' = 2
    /\ UNCHANGED <<phase, clientVars, conversation, pc, iter, msg, bi, tool_results,
                   stopsSeen, outcome, reply, modelRequests, toolCalls,
                   modelDefault, arrived, turns, free, exc, bodyLines>>

FormatNext == StoreCatalog \/ Translate

FormatSpec == FormatInit /\ [][FormatNext]_vars

-----------------------------------------------------------------------------
(* Properties *)

MaxIterationsMessage == "Reached maximum iterations."
TurnEnded == pc = "idle" /\ turns > 0

\* Equality of two messages; the contents are compared only when they are
\* of the same Python type.
MsgEq(a, b) ==
    IF a.role # b.role THEN FALSE
    ELSE IF a.ctype # b.ctype THEN FALSE
    ELSE a.content = b.content

IsPrefix(a, b) ==
    /\ Len(a) <= Len(b)
    /\ \A i \in 1..Len(a) : MsgEq(a[i], b[i])

ToolUses(content) == SelectSeq(content, LAMBDA b : b.type = "tool_use")

HasResults(m) ==
    /\ m.ctype = "list"
    /\ \E k \in 1..Len(m.content) : m.content[k].type = "tool_result"

\* A body that holds no JSON document the parser could take: its first
\* line with the data prefix carries no valid JSON or, without such a line,
\* the whole body is no valid JSON.
Unparsable(text) ==
    LET lines == SplitLines(Strip(text))
        data == DataLines(text)
    IN  IF data # {}
        THEN ~JsonLoads(SubSeq(lines[Min(data)], PrefixLen + 1,
                               Len(lines[Min(data)]))).ok
        ELSE ~JsonLoads(text).ok

\* C1: a turn in which every request to the model is answered and every
\* tool call returns sends at most 10 requests to the model endpoint and
\* ends in Done, Error or BudgetExceeded; and a turn that has begun ends.
C1_TurnTerminatesWithinBudget ==
    /\ [](modelRequests <= MaxIterations)
    /\ []((TurnEnded /\ exc = "")
            => (outcome \in {"Done", "Error", "BudgetExceeded"} /\ modelRequests >= 1))
    /\ []((pc # "idle") => <>(pc = "idle"))

C1_Witness ==
    /\ TurnEnded
    /\ outcome = "BudgetExceeded"
    /\ modelRequests = MaxIterations

\* C2: a turn all of whose model responses have stop_reason tool_use (and no
\* request failed in transport) ends with the fixed maximum-iterations
\* message after exactly 10 round trips.
C2_ToolUseOnlyEndsAtCeiling ==
    (TurnEnded /\ stopsSeen = {"tool_use"} /\ exc # "TransportError")
        => /\ outcome = "BudgetExceeded"
           /\ reply = MaxIterationsMessage
           /\ modelRequests = MaxIterations

\* C2, where every tool call returned: the same conclusion.
C2_WhenToolsReturn ==
    (TurnEnded /\ stopsSeen = {"tool_use"} /\ exc = "")
        => /\ outcome = "BudgetExceeded"
           /\ reply = MaxIterationsMessage
           /\ modelRequests = MaxIterations

\* C3: every message of the transcript that holds tool_result blocks is a
\* user message right after an assistant message, and its blocks are the
\* results, one for one and in order, of the tool_use blocks of that
\* assistant message, each under the id of its request.
C3_ResultsPairRequests ==
    \A i \in 1..Len(conversation) :
        HasResults(conversation[i]) =>
            /\ conversation[i].role = "user"
            /\ i > 1
            /\ conversation[i - 1].role = "assistant"
            /\ LET res == conversation[i].content
                   reqs == ToolUses(conversation[i - 1].content)
               IN  /\ Len(res) = Len(reqs)
                   /\ \A k \in 1..Len(res) :
                        /\ res[k].type = "tool_result"
                        /\ res[k].tool_use_id = reqs[k].id

C3_Witness ==
    \E i \in 2..Len(conversation) :
        /\ conversation[i].ctype = "list"
        /\ conversation[i].role = "user"
        /\ Len(conversation[i].content) = 2
        /\ conversation[i].content[1].tool_use_id = "toolu_1"
        /\ conversation[i].content[2].tool_use_id = "toolu_2"
        /\ conversation[i].content[1].content = "issue #1"

\* C4: every step leaves the transcript as it was or longer at its end: the
\* transcript before the step is a prefix of the transcript after it.
C4_AppendOnly == [][IsPrefix(conversation, conversation')]_vars

C4_Witness ==
    /\ TurnEnded
    /\ turns = 2
    /\ outcome = "Error"
    /\ Len(conversation) > 2 * MaxIterations

\* C5: after a handshake whose response carried the session identifier S,
\* every later request carries S in the session header; after one whose
\* response carried no such header, every later request has no session header.
C5_SessionHeaderFollowsHandshake ==
    \A i \in 2..Len(mcpLog) :
        LET h == mcpLog[i].headers
        IN  /\ hsHeader \notin {Unset, None, ""}
                => ("Mcp-Session-Id" \in DOMAIN h /\ h["Mcp-Session-Id"] = hsHeader)
            /\ hsHeader = None => "Mcp-Session-Id" \notin DOMAIN h

C5_Witness ==
    /\ hsHeader = "sess-1"
    /\ \A m \in {"notifications/initialized", "tools/list", "tools/call"} :
        \E i \in 2..Len(mcpLog) : mcpLog[i].method = m

C5_WitnessNoSession ==
    /\ hsHeader = None
    /\ \E i \in 2..Len(mcpLog) : mcpLog[i].method = "tools/call"

\* C6: once a handshake has assigned a session identifier, the stored
\* session identifier stays that first value whatever the client does next.
C6_SessionImmutable == firstSession # Unset => session_id = firstSession

\* C7: a tool-service body that cannot be parsed makes call_tool return the
\* empty result without raising, and the turn goes on.
C7_UnparsableGivesEmptyResult ==
    (toolCalls > 0 /\ lastBody # Unset /\ Unparsable(lastBody))
        => /\ exc = ""
           /\ DOMAIN result = {}
           /\ outcome # "Raised"

\* The lines of the body under test that begin with the data prefix, and
\* whether the body is one JSON document: one line of JSON text, blank
\* lines aside.
DataIdx == {i \in 1..Len(bodyLines) : bodyLines[i].prefix = DataPrefix}
InkIdx == {i \in 1..Len(bodyLines) : LineText(bodyLines[i]) # ""}
WholeBodyIsJson ==
    /\ Cardinality(InkIdx) = 1
    /\ \A i \in InkIdx : bodyLines[i].prefix = "" /\ bodyLines[i].rest \in JsonTexts

\* C8: the parser takes the payload of the first line with the data prefix,
\* whatever follows or precedes it; the whole body as JSON only when no line
\* has the prefix; the empty result only when that fails too.  The body
\* "data: {"result":{"tools":[]}}\n" gives list_tools the empty catalog and
\* the plain body {"result":{"tools":[{"name":"x"}]}} the one tool x.
C8_ParsePrecedence ==
    ops > 0 =>
        /\ lastBody = BodyOf(bodyLines)
        /\ DataIdx # {} =>
            LET payload == bodyLines[Min(DataIdx)].rest
            IN  IF payload \in JsonTexts
                THEN lastParse.exc = "" /\ lastParse.v = JsonValue(payload)
                ELSE lastParse.exc # ""
        /\ (DataIdx = {} /\ WholeBodyIsJson) =>
            /\ lastParse.exc = ""
            /\ \A i \in InkIdx : lastParse.v = JsonValue(bodyLines[i].rest)
        /\ (DataIdx = {} /\ ~WholeBodyIsJson) =>
            /\ lastParse.exc = ""
            /\ DOMAIN lastParse.v = {}
        /\ (ops = 1 /\ bodyLines = <<Line(DataPrefix, J_TOOLS_EMPTY), Line("", "")>>) =>
            /\ exc = ""
            /\ tools = <<>>
            /\ catalogBody = DataPrefix \o J_TOOLS_EMPTY \o "\n"
        /\ (ops = 1 /\ bodyLines = <<Line("", J_TOOLS_X)>>) =>
            /\ exc = ""
            /\ tools = <<[name |-> "x"]>>

C8_Witness ==
    /\ ops = 1
    /\ bodyLines = <<Line(DataPrefix, J_TOOLS_X), Line(DataPrefix, J_TOOLS_EMPTY)>>
    /\ tools = <<[name |-> "x"]>>

\* C9: the service accepts turns only after a handshake and a catalog
\* request whose responses were well formed: a malformed one aborts startup.
C9_MalformedAbortsStartup ==
    phase = "serving" => (~Unparsable(hsBody) /\ ~Unparsable(catalogBody))

\* C10: a turn in which a request failed in transport ends by returning an
\* error text to its caller.
C10_TransportErrorAsText ==
    (phase = "serving" /\ TurnEnded /\ exc = "TransportError")
        => (outcome = "Error" /\ StartsWith(reply, "Error"))

\* The text run_agent returns for the error object of RespError (l.127).
OverloadedText == "Error: {'type': 'overloaded_error', 'message': 'Overloaded'}"

\* C11: the step in which a model response reports an error ends the turn
\* with the error message that carries that error, appends nothing to the
\* transcript and invokes no tool; and from there to the next turn no request
\* is sent, to the model or to the tool service.
C11_ModelErrorEndsTurn ==
    /\ [][(modelRequests' = modelRequests + 1 /\ HasError(msg'))
            => /\ pc' = "idle"
               /\ outcome' = "Error"
               /\ reply' = OverloadedText
               /\ conversation' = conversation
               /\ mcpLog' = mcpLog]_vars
    /\ [][(outcome = "Error" /\ turns' = turns)
            => /\ modelRequests' = modelRequests
               /\ mcpLog' = mcpLog
               /\ conversation' = conversation]_vars

C11_Witness ==
    /\ TurnEnded
    /\ outcome = "Error"
    /\ reply = OverloadedText
    /\ modelRequests > 1
    /\ conversation[Len(conversation)].role = "user"

\* The text of the text blocks of content from block i on, one per line.
RECURSIVE TextFrom(_, _)
TextFrom(content, i) ==
    LET later == {k \in (i + 1)..Len(content) : content[k].type = "text"}
    IN  IF i > Len(content) THEN ""
        ELSE IF content[i].type # "text" THEN TextFrom(content, i + 1)
        ELSE IF later = {} THEN content[i].text
        ELSE content[i].text \o "\n" \o TextFrom(content, i + 1)

\* C12: a turn that ended on a response with stop_reason end_turn returned
\* the texts of the text blocks of that response, in their order, joined
\* with newline, the other blocks adding nothing: "Hello\nworld" for the
\* text blocks "Hello" and "world".
C12_EndTurnReturnsJoinedText ==
    (TurnEnded /\ outcome = "Done") =>
        /\ msg.stop_reason = "end_turn"
        /\ reply = TextFrom(msg.content, 1)
        /\ msg = RespEnd => reply = "Hello\nworld"

C12_Witness ==
    /\ TurnEnded
    /\ outcome = "Done"
    /\ msg = RespEnd
    /\ reply = "Hello\nworld"
    /\ \E k \in 1..Len(msg.content) : msg.content[k].type # "text"

\* The tool_use block the latest call_tool of this iteration was made for.
CalledBlock == ToolUses(msg.content)[toolCalls]

\* C13: a tools/call response that parses but has no result member (a
\* JSON-RPC error) makes call_tool return the empty result without raising;
\* the tool_result block of that request has empty content and the id of the
\* request, and the turn goes on to its next request.
C13_ToolFailureGivesEmptyResult ==
    (toolCalls > 0 /\ lastBody = J_RPC_ERROR /\ exc # "TransportError") =>
        /\ exc = ""
        /\ outcome # "Raised"
        /\ DOMAIN result = {}
        /\ Len(tool_results) = toolCalls
        /\ tool_results[toolCalls] =
                [type |-> "tool_result", tool_use_id |-> CalledBlock.id, content |-> ""]
        /\ \/ pc = "tools"
           \/ /\ conversation[Len(conversation)] = UserBlocks(tool_results)
              /\ \/ pc = "await_model"
                 \/ outcome = "BudgetExceeded" /\ iter = MaxIterations

C13_Witness ==
    /\ toolCalls = 1
    /\ lastBody = J_RPC_ERROR
    /\ pc = "await_model"
    /\ conversation[Len(conversation)].content =
            <<[type |-> "tool_result", tool_use_id |-> "toolu_1", content |-> ""]>>

\* The texts of the parts of a tool result from part i on, joined with
\* newline: the tool output.
RECURSIVE OutputFrom(_, _)
OutputFrom(parts, i) ==
    IF i > Len(parts) THEN ""
    ELSE IF i = Len(parts) THEN parts[i].text
    ELSE parts[i].text \o "\n" \o OutputFrom(parts, i + 1)

ToolOutput(res) ==
    IF "content" \in DOMAIN res THEN OutputFrom(res.content, 1) ELSE ""

\* C14: every tool_result block of the transcript has content of at most
\* 10000 characters; the block made from a tool output holds the first 10000
\* characters of the output when the output is longer and the whole output
\* otherwise; an output of 20000 characters gives a content of exactly 10000.
C14_ResultsTruncated ==
    /\ \A i \in 1..Len(conversation) :
        HasResults(conversation[i]) =>
            \A k \in 1..Len(conversation[i].content) :
                Len(conversation[i].content[k].content) <= 10000
    /\ (toolCalls > 0 /\ exc = "") =>
        LET out == ToolOutput(result)
            placed == tool_results[toolCalls].content
        IN  /\ Len(out) > 10000 => placed = SubSeq(out, 1, 10000)
            /\ Len(out) <= 10000 => placed = out
            /\ lastBody = J_CALL_LONG => (Len(out) = 20000 /\ Len(placed) = 10000)

C14_Witness ==
    /\ toolCalls > 0
    /\ exc = ""
    /\ lastBody = J_CALL_LONG
    /\ pc = "await_model"
    /\ conversation[Len(conversation)].content[1].content = LongA \o "\n"

\* C15: a turn starts, and appends its user message, only when no turn is
\* in progress, also when its request arrived while one was; every other
\* append to the transcript is made by the one turn in progress.  So the
\* messages of a turn are all appended before the next turn appends any.
C15_TurnsSerialized ==
    /\ [][turns' # turns
            => /\ pc = "idle"
               /\ turns' = turns + 1
               /\ Len(conversation') = Len(conversation) + 1
               /\ conversation'[Len(conversation')].role = "user"
               /\ conversation'[Len(conversation')].ctype = "str"]_vars
    /\ [][(Len(conversation') # Len(conversation) /\ turns' = turns)
            => (pc # "idle" /\ arrived' = arrived)]_vars
    /\ [][(pc # "idle" /\ arrived' # arrived)
            => (conversation' = conversation /\ pc' = pc /\ turns' = turns)]_vars

\* A second request has arrived while the first turn waits for a tool.
C15_Witness ==
    /\ pc = "tools"
    /\ turns = 1
    /\ arrived = 1
    /\ Len(conversation) > 2

\* C16: the translation of a catalog has the length of the catalog, and its
\* i-th element has the name of the i-th descriptor, its description or ""
\* without one, and its input schema or {type: object, properties: {}}
\* without one, and nothing else.
C16_TranslationKeepsOrder ==
    ops = 2 =>
        /\ Len(anthropic_tools) = Len(tools)
        /\ \A i \in 1..Len(tools) :
            /\ DOMAIN anthropic_tools[i] = {"name", "description", "input_schema"}
            /\ anthropic_tools[i].name = tools[i].name
            /\ anthropic_tools[i].description =
                    (IF "description" \in DOMAIN tools[i]
                     THEN tools[i].description ELSE "")
            /\ anthropic_tools[i].input_schema =
                    (IF "inputSchema" \in DOMAIN tools[i]
                     THEN tools[i].inputSchema
                     ELSE [type |-> "object", properties |-> EmptyDict])

C16_Witness ==
    /\ ops = 2
    /\ Len(tools) = 2
    /\ tools[1].name = "get_issue"
    /\ tools[2].name = "list_issues"
    /\ DOMAIN tools[1] = {"name"}
    /\ anthropic_tools[1] =
            [name |-> "get_issue", description |-> "",
             input_schema |-> [type |-> "object", properties |-> EmptyDict]]
    /\ anthropic_tools[2].name = "list_issues"

NumAssistant(conv) == Cardinality({i \in 1..Len(conv) : conv[i].role = "assistant"})

\* C17: the step that receives a model response without error appends the
\* whole content of the response as one assistant message, and no other
\* assistant message, whatever the stop reason, and sends nothing to the tool
\* service; so the message is in the transcript while the tools of the
\* response are invoked and when the turn returns.
C17_ResponseAppendedWhole ==
    /\ [][(modelRequests' = modelRequests + 1 /\ exc' # "TransportError"
             /\ ~HasError(msg'))
            => /\ Len(conversation') > Len(conversation)
               /\ conversation'[Len(conversation) + 1] =
                    [role |-> "assistant", ctype |-> "list", content |-> msg'.content]
               /\ NumAssistant(conversation') = NumAssistant(conversation) + 1
               /\ mcpLog' = mcpLog]_vars
    /\ [](pc = "tools" =>
            conversation[Len(conversation)] =
                [role |-> "assistant", ctype |-> "list", content |-> msg.content])
    /\ []((TurnEnded /\ outcome = "Done") =>
            conversation[Len(conversation)] =
                [role |-> "assistant", ctype |-> "list", content |-> msg.content])

\* The three kinds of stop reason have been seen in one turn.
C17_Witness ==
    /\ TurnEnded
    /\ outcome = "Done"
    /\ stopsSeen = {"max_tokens", "end_turn"}
    /\ NumAssistant(conversation) = modelRequests
    /\ modelRequests > 2

C17_WitnessToolUse ==
    /\ pc = "tools"
    /\ stopsSeen = {"tool_use"}
    /\ Len(msg.content) = 3
    /\ toolCalls = 1

\* The iteration of the latest response, one with stop_reason tool_use, is
\* complete: the next model request is due, or the ceiling ended the turn.
ToolIterationDone ==
    /\ modelRequests > 0
    /\ ~HasError(msg)
    /\ msg.stop_reason = "tool_use"
    /\ \/ pc = "await_model"
       \/ TurnEnded /\ outcome = "BudgetExceeded"

\* C18: while the tools of a response are being invoked the result message
\* is not in the transcript yet: it is appended once, after the last call
\* has returned, with one result per call, and the next model request is
\* sent after that; between two model requests there are as many call_tool
\* invocations as the response between them has tool_use blocks.
C18_CallsCompleteBeforeResults ==
    /\ pc = "tools" =>
        /\ msg.stop_reason = "tool_use"
        /\ toolCalls < Len(ToolUses(msg.content))
        /\ Len(tool_results) = toolCalls
        /\ conversation[Len(conversation)].role = "assistant"
        /\ conversation[Len(conversation)].content = msg.content
    /\ ToolIterationDone =>
        /\ toolCalls = Len(ToolUses(msg.content))
        /\ Len(conversation) >= 2
        /\ conversation[Len(conversation)].role = "user"
        /\ conversation[Len(conversation)].ctype = "list"
        /\ conversation[Len(conversation)].content = tool_results
        /\ Len(tool_results) = toolCalls
        /\ conversation[Len(conversation) - 1].role = "assistant"
        /\ conversation[Len(conversation) - 1].content = msg.content

C18_Witness ==
    /\ pc = "await_model"
    /\ msg = RespTool2
    /\ toolCalls = 2
    /\ Len(conversation[Len(conversation)].content) = 2
    /\ iter > 1

\* The step receives a response, without error, whose stop reason is
\* neither end_turn nor tool_use.
OtherStopStep ==
    /\ modelRequests' = modelRequests + 1
    /\ exc' # "TransportError"
    /\ ~HasError(msg')
    /\ msg'.stop_reason \notin {"end_turn", "tool_use"}

\* C19: a response whose stop reason is neither end_turn nor tool_use does
\* not end the turn: the step appends the assistant message and nothing
\* else, calls no tool, uses up one iteration and leaves the turn waiting
\* for the next model response, or ended with the maximum-iterations message
\* when that was the tenth iteration; a turn of such responses only ends
\* with that message after 10 requests.
C19_OtherStopReasonLoops ==
    /\ [][OtherStopStep
            => /\ Len(conversation') = Len(conversation) + 1
               /\ conversation'[Len(conversation')].role = "assistant"
               /\ conversation'[Len(conversation')].content = msg'.content
               /\ mcpLog' = mcpLog
               /\ toolCalls' = 0
               /\ iter' = iter + 1
               /\ IF iter' < 10
                  THEN pc' = "await_model" /\ outcome' = "none"
                  ELSE /\ pc' = "idle"
                       /\ outcome' = "BudgetExceeded"
                       /\ reply' = "Reached maximum iterations."]_vars
    /\ []((TurnEnded /\ stopsSeen = {"max_tokens"})
            => /\ outcome = "BudgetExceeded"
               /\ reply = "Reached maximum iterations."
               /\ modelRequests = 10
               /\ NumAssistant(conversation) >= 10)

C19_Witness ==
    /\ TurnEnded
    /\ stopsSeen = {"max_tokens"}
    /\ outcome = "BudgetExceeded"
    /\ modelRequests = 10
    /\ turns = 1
    /\ Len(conversation) = 11

\* The tool_use block b of message i of the transcript is answered: the
\* next message holds a tool_result block under the id of b.
Answered(i, b) ==
    /\ i < Len(conversation)
    /\ conversation[i + 1].role = "user"
    /\ conversation[i + 1].ctype = "list"
    /\ \E k \in 1..Len(conversation[i + 1].content) :
        /\ conversation[i + 1].content[k].type = "tool_result"
        /\ conversation[i + 1].content[k].tool_use_id = b.id

\* C20: whenever a request to the model is due, every tool_use block of
\* every assistant message of the transcript is answered by a tool_result
\* block with its id in the message that follows the assistant message.
C20_EveryToolUseAnswered ==
    pc = "await_model" =>
        \A i \in 1..Len(conversation) :
            conversation[i].role = "assistant" =>
                \A k \in 1..Len(conversation[i].content) :
                    conversation[i].content[k].type = "tool_use"
                        => Answered(i, conversation[i].content[k])

\* C20, for the assistant messages of responses with stop_reason tool_use in
\* a turn no call of which raised: the last message but one, when it is such
\* a message, has all its tool_use blocks answered.
C20_ToolUseResponsesAnswered ==
    (pc = "await_model" /\ modelRequests > 0 /\ msg.stop_reason = "tool_use") =>
        \A k \in 1..Len(msg.content) :
            msg.content[k].type = "tool_use"
                => Answered(Len(conversation) - 1, msg.content[k])

=============================================================================
